---- MODULE Spec2Model ----
(***************************************************************************)
(* OtterBot: document store (games, game_sources, chat_log), the research  *)
(* workflow, the query workflow, the FAISS index builder and the chunker.  *)
(*                                                                         *)
(* Message handlers are asyncio tasks of one event loop                    *)
(* (concurrent_updates(True), block=False): they interleave only at their  *)
(* awaits.  ResearchTool.research and QueryTool.answer are synchronous, so *)
(* while a research call is running (run # NoRun) no other operation takes *)
(* a step.                                                                 *)
(***************************************************************************)
EXTENDS Integers, Sequences, FiniteSets, TLC

VARIABLES
    games,      \* table games: row i has id i; [name, status, store_dir, researched]
    sources,    \* table game_sources in id order
    chatTag,    \* per chat: game_id of the latest chat_log row with a tag
    disk,       \* per game id: which build wrote meta_data.jsonl / faiss.index
    run,        \* the research call that is executing, or NoRun
    call,       \* the number, argument and topic of the latest research call
    last,       \* what the latest completed research/answer call did
    ck          \* chunker / index builder under test (see SpecChunk, SpecCreate)

vars == <<games, sources, chatTag, disk, run, call, last, ck>>

----------------------------------------------------------------------------
(* Bounds *)

MaxResearch == 2    \* research() calls explored
NumChats == 1       \* chats
MaxTextLen == 5     \* characters of a text given to chunk_text
MaxChunk == 3       \* chunk_size and overlap given to chunk_text
MaxSections == 3    \* sections given to FAISSDS.create
MaxBatch == 2       \* batch_size given to get_embeddings
MaxVectors == 3     \* vectors of an index that is searched
MaxScore == 2       \* scores are 0..MaxScore
MaxTopk == 3        \* topk given to search_request
MaxSkip == 2        \* skip given to search_request
MaxLines == 3       \* lines of a metadata file that is loaded
NumThreads == 3     \* threads that construct DB()

----------------------------------------------------------------------------
(* Values *)

None == "none"
NoRun == [phase |-> "idle"]
Chats == 1..NumChats

\* Topic names a user can ask for; two of them differ only in case.
Names == {"Catan", "catan", "Azul"}

\* SQL lower() on the names above.
Lower(s) ==
    CASE s = "Catan" -> "catan"
      [] s = "Azul"  -> "azul"
      [] s = "Cattan" -> "cattan"
      [] OTHER       -> s

\* URLs are <<site, basename>>.
WikiUrl(name) == <<"wiki", name>>
BggUrl == <<"bgg", "13">>
PdfUrl == <<"pub", "rules.pdf">>
TubeUrl == <<"youtube", "abc">>
NoPath == <<>>

----------------------------------------------------------------------------
(* DB *)

\* Mutant: exact comparison, `WHERE name = ?`.
get_game_by_name_Exact(g, name) ==
    IF \E i \in 1..Len(g) : g[i].name = name
    THEN CHOOSE i \in 1..Len(g) : g[i].name = name
    ELSE 0

\* DB.get_game_by_name: id of the first row with lower(name) = lower(?), or 0.
get_game_by_name(g, name) ==
    IF \E i \in 1..Len(g) : Lower(g[i].name) = Lower(name)
    THEN CHOOSE i \in 1..Len(g) :
            /\ Lower(g[i].name) = Lower(name)
            /\ \A j \in 1..(i-1) : Lower(g[j].name) # Lower(name)
    ELSE 0

\* DB.create_game: INSERT, the new row takes the next id.
create_game(g, name, store_dir, status) ==
    Append(g, [name |-> name, status |-> status, store_dir |-> store_dir,
               researched |-> FALSE])

\* DB.update_game_status
update_game_status(g, id, status) ==
    [g EXCEPT ![id].status = status]

\* DB.update_game_timestamps
update_game_timestamps(g, id) ==
    [g EXCEPT ![id].researched = TRUE]

\* DB.add_game_source
add_game_source(s, id, kind, url, title, path) ==
    Append(s, [game_id |-> id, kind |-> kind, url |-> url,
               title |-> title, path |-> path])

\* DB.list_sources_for_game
list_sources_for_game(s, id) ==
    SelectSeq(s, LAMBDA r : r.game_id = id)

\* DB.find_recent_game_for_chat: the game of the latest tagged row, or 0.
find_recent_game_for_chat(chat) == chatTag[chat]

StatusOf(g, name) ==
    IF get_game_by_name(g, name) = 0 THEN None
    ELSE g[get_game_by_name(g, name)].status

----------------------------------------------------------------------------
(* ResearchTool *)

\* Mutant: only the legacy status string short-circuits.
AlreadyResearched_OnlyLegacy(status) == status \in {"researched"}

\* research: `if game.status in {"ready", "researched"}`
AlreadyResearched(status) == status \in {"ready", "researched"}

\* What the source-discovery LLM call can answer: text that holds no JSON
\* object, a JSON object that lists a video, one that lists pages of two
\* sites whose URLs end in the same path segment, or one whose list repeats
\* URLs.
LLMSources(resp, name) ==
    IF resp = "nojson" THEN [json |-> FALSE, sources |-> <<>>]
    ELSE IF resp = "mirrors"
         THEN [json |-> TRUE,
               sources |-> <<[title |-> "Official rules", url |-> <<"official", "rules">>],
                             [title |-> "Fan rules", url |-> <<"fan", "rules">>]>>]
    ELSE IF resp = "video"
         THEN [json |-> TRUE,
               sources |-> <<[title |-> "How to play", url |-> TubeUrl]>>]
    ELSE [json |-> TRUE,
          sources |-> <<[title |-> "Wiki page", url |-> WikiUrl(name)],
                        [title |-> "Rules PDF", url |-> PdfUrl],
                        [title |-> "Rules again", url |-> PdfUrl]>>]

\* Mutant: nothing is left out.
Dedup_Off(list, seen) == list

\* The dedup loop shared by web_research_links and research: keep the first
\* entry of every URL, in order.
RECURSIVE Dedup(_, _)
Dedup(list, seen) ==
    IF list = <<>> THEN <<>>
    ELSE IF Head(list).url \in seen THEN Dedup(Tail(list), seen)
    ELSE <<Head(list)>> \o Dedup(Tail(list), seen \cup {Head(list).url})

\* llm.web_research_links: `_extract_json_block(content) or {"sources": []}`,
\* then the cleaned, de-duplicated list.
web_research_links(raw) ==
    IF raw.json THEN Dedup(raw.sources, {}) ELSE <<>>

\* research: the list `seeds`: Wikipedia, BoardGameGeek when found, then the
\* discovered sources.
Seeds(name, bgg, discovered) ==
    <<[title |-> "Wikipedia", url |-> WikiUrl(name)]>>
    \o (IF bgg THEN <<[title |-> "BoardGameGeek", url |-> BggUrl]>> ELSE <<>>)
    \o discovered

\* research: the list `uniq`, the seeds de-duplicated by URL.
Candidates(name, bgg, discovered) ==
    Dedup(Seeds(name, bgg, discovered), {})

\* extract_youtube_id
IsYoutube(url) == url[1] = "youtube"

\* What one _save_source call can meet: captions or none for a video; a
\* failed GET, a PDF or an HTML page otherwise.
FetchOutcomes(url) ==
    IF IsYoutube(url) THEN {"captions", "nocaptions"}
    ELSE IF url = PdfUrl THEN {"getfail", "pdf"}
    ELSE {"getfail", "html"}

\* Mutant: a failed GET is recorded like a page.
SavedKind_NoLink(outcome) ==
    CASE outcome = "captions"   -> "video"
      [] outcome = "nocaptions" -> "video"
      [] outcome = "pdf"        -> "pdf"
      [] OTHER                  -> "html"

\* _save_source: the row it inserts for an outcome.
SavedKind(outcome) ==
    CASE outcome = "captions"   -> "video"
      [] outcome = "nocaptions" -> "video"
      [] outcome = "getfail"    -> "link"
      [] outcome = "pdf"        -> "pdf"
      [] outcome = "html"       -> "html"

\* _save_source: the local path it wrote, <<game id, file stem, extension>>.
SavedPath(id, url, outcome) ==
    CASE outcome = "captions"   -> <<id, "youtube_" \o url[2], "txt">>
      [] outcome = "nocaptions" -> NoPath
      [] outcome = "getfail"    -> NoPath
      [] outcome = "pdf"        -> <<id, url[2], "pdf">>
      [] outcome = "html"       -> <<id, url[2], "html">>

\* ingest_game_sources reads the .txt sibling of .html files and .txt files;
\* PDFs are skipped.
HasTextSource(s, id) ==
    \E k \in 1..Len(s) :
        /\ s[k].game_id = id
        /\ s[k].path # NoPath
        /\ s[k].path[3] \in {"html", "txt"}

Result(op, reply, id, status, searched, llm, dl, ln) ==
    [op |-> op, reply |-> reply, gid |-> id, status |-> status,
     searched |-> searched, llm |-> llm, downloaded |-> dl, linked |-> ln]

\* store_dir of a row whose directory GAMES_DIR/<id> was made.
GamesDir == "games"

\* Mutant: an existing row is written again with the insert's status.
get_or_create_game_Rewrite(g, name) ==
    IF get_game_by_name(g, name) # 0
    THEN [games |-> update_game_status(g, get_game_by_name(g, name), "created"),
          id |-> get_game_by_name(g, name)]
    ELSE [games |-> [create_game(g, name, "temp", "created")
                        EXCEPT ![Len(g) + 1].store_dir = GamesDir],
          id |-> Len(g) + 1]

\* get_or_create_game: the table after the call and the id it returns.  A new
\* row is inserted with store_dir "temp"; after the mkdir an UPDATE sets it to
\* GAMES_DIR/<id>.
get_or_create_game(g, name) ==
    IF get_game_by_name(g, name) # 0
    THEN [games |-> g, id |-> get_game_by_name(g, name)]
    ELSE [games |-> [create_game(g, name, "temp", "created")
                        EXCEPT ![Len(g) + 1].store_dir = GamesDir],
          id |-> Len(g) + 1]

CanCall(name) ==
    /\ run = NoRun
    /\ call.n < MaxResearch

\* research(name) on a topic that is ready: the early return.
ResearchAlready(name) ==
    LET gc == get_or_create_game(games, name) IN
    /\ CanCall(name)
    /\ AlreadyResearched(gc.games[gc.id].status)
    /\ games' = gc.games
    /\ call' = [n |-> call.n + 1, name |-> name, gid |-> gc.id]
    /\ last' = Result("research", "already", gc.id, gc.games[gc.id].status,
                      FALSE, FALSE, 0, 0)
    /\ UNCHANGED <<sources, chatTag, disk, run, ck>>

\* research(name): get_or_create_game inserted the row and then raised
\* (mkdir or the store_dir update failed): the row keeps store_dir "temp".
ResearchCreateRaises(name) ==
    /\ CanCall(name)
    /\ get_game_by_name(games, name) = 0
    /\ games' = create_game(games, name, "temp", "created")
    /\ call' = [n |-> call.n + 1, name |-> name, gid |-> Len(games) + 1]
    /\ last' = Result("research", "raised", Len(games) + 1, "created",
                      FALSE, FALSE, 0, 0)
    /\ UNCHANGED <<sources, chatTag, disk, run, ck>>

\* research(name): status flipped to researching, then the discovery call
\* raised.
ResearchDiscoveryRaises(name) ==
    LET gc == get_or_create_game(games, name) IN
    /\ CanCall(name)
    /\ ~AlreadyResearched(gc.games[gc.id].status)
    /\ games' = update_game_status(gc.games, gc.id, "researching")
    /\ call' = [n |-> call.n + 1, name |-> name, gid |-> gc.id]
    /\ last' = Result("research", "raised", gc.id, gc.games[gc.id].status,
                      FALSE, FALSE, 0, 0)
    /\ UNCHANGED <<sources, chatTag, disk, run, ck>>

\* research(name): status flipped to researching, discovery, seeds, dedup.
\* bgg: bgg_canonical_url found the page; resp: what the LLM answered.
ResearchStart(name, bgg, resp) ==
    LET gc == get_or_create_game(games, name) IN
    /\ CanCall(name)
    /\ ~AlreadyResearched(gc.games[gc.id].status)
    /\ games' = update_game_status(gc.games, gc.id, "researching")
    /\ call' = [n |-> call.n + 1, name |-> name, gid |-> gc.id]
    /\ run' = [phase |-> "save", gid |-> gc.id,
               seen |-> gc.games[gc.id].status,
               base |-> Len(sources),
               seeds |-> Seeds(gc.games[gc.id].name, bgg,
                          web_research_links(LLMSources(resp, gc.games[gc.id].name))),
               uniq |-> Candidates(gc.games[gc.id].name, bgg,
                          web_research_links(LLMSources(resp, gc.games[gc.id].name))),
               i |-> 1, fetched |-> None, ingested |-> None,
               downloaded |-> 0, linked |-> 0]
    /\ UNCHANGED <<sources, chatTag, disk, last, ck>>

\* Mutant: every source is reported as downloaded.
Increments_AllDownloaded(path) == <<1, 0>>

\* _save_source returns the (downloaded, linked) increments: (1, 0) next to
\* a row with a local path, (0, 1) next to a row without.
Increments(path) == IF path # NoPath THEN <<1, 0>> ELSE <<0, 1>>

\* _save_source: open(os.path.join(game.store_dir, fname), "w") finds its
\* directory.  GAMES_DIR/<id> was made by get_or_create_game; nothing makes
\* a directory "temp".
CanWrite(store_dir) == store_dir = GamesDir

\* research: one iteration of `for title, url in uniq: _save_source(...)`.
SaveSource(o) ==
    /\ run.phase = "save"
    /\ run.i <= Len(run.uniq)
    /\ LET c == run.uniq[run.i] IN
          /\ o \in FetchOutcomes(c.url)
          /\ SavedPath(run.gid, c.url, o) # NoPath => CanWrite(games[run.gid].store_dir)
          /\ sources' = add_game_source(sources, run.gid, SavedKind(o), c.url,
                                        c.title, SavedPath(run.gid, c.url, o))
          /\ run' = [run EXCEPT !.i = @ + 1,
                        !.fetched = o,
                        !.downloaded = @ + Increments(SavedPath(run.gid, c.url, o))[1],
                        !.linked = @ + Increments(SavedPath(run.gid, c.url, o))[2]]
    /\ UNCHANGED <<games, chatTag, disk, call, last, ck>>

\* research: _save_source raised (a file could not be written); the call
\* ends with the topic still researching.
SaveSourceRaises ==
    /\ run.phase = "save"
    /\ run.i <= Len(run.uniq)
    /\ run' = NoRun
    /\ last' = Result("research", "raised", run.gid, run.seen, FALSE, FALSE,
                      run.downloaded, run.linked)
    /\ UNCHANGED <<games, sources, chatTag, disk, call, ck>>

\* research: _save_source fetched the page and open() raised
\* FileNotFoundError, the row's store_dir being "temp"; the call ends with
\* the topic still researching.
SaveSourceNoDir(o) ==
    /\ run.phase = "save"
    /\ run.i <= Len(run.uniq)
    /\ o \in FetchOutcomes(run.uniq[run.i].url)
    /\ SavedPath(run.gid, run.uniq[run.i].url, o) # NoPath
    /\ ~CanWrite(games[run.gid].store_dir)
    /\ run' = NoRun
    /\ last' = Result("research", "raised", run.gid, run.seen, FALSE, FALSE,
                      run.downloaded, run.linked)
    /\ UNCHANGED <<games, sources, chatTag, disk, call, ck>>

\* FAISSDS.create writes meta_data.jsonl, then asks for the embeddings, then
\* writes faiss.index.  `build` identifies the call.
FAISSDS_create(files, build, outcome) ==
    CASE outcome = "ok"       -> [meta |-> build, index |-> build]
      [] outcome = "embedraises" -> [files EXCEPT !.meta = build]
      [] OTHER                -> files

\* ingest_game_sources: what a call can meet.  With no text to index it
\* returns before FAISSDS.create.
IngestOutcomes(s, id) ==
    {"nosections", "raises"}
    \cup (IF HasTextSource(s, id) THEN {"ok", "embedraises"} ELSE {})

\* Mutant: the index build outside the try.
IngestCaught_Nothing(o) == o \notin {"raises", "embedraises"}

\* research: `except Exception as e: logger.error(...)` around the build.
IngestCaught(o) == TRUE

\* research: `try: ingest_game_sources(game.id) except Exception: log`.
Ingest(o) ==
    /\ run.phase = "save"
    /\ run.i > Len(run.uniq)
    /\ o \in IngestOutcomes(sources, run.gid)
    /\ disk' = [disk EXCEPT ![run.gid] = FAISSDS_create(@, call.n, o)]
    /\ IF IngestCaught(o)
       THEN /\ run' = [run EXCEPT !.phase = "final", !.ingested = o]
            /\ last' = last
       ELSE /\ run' = NoRun
            /\ last' = Result("research", "raised", run.gid, run.seen, FALSE,
                              FALSE, run.downloaded, run.linked)
    /\ UNCHANGED <<games, sources, chatTag, call, ck>>

\* research: description (failures swallowed), status ready, timestamps, the
\* summary.
Finalize ==
    /\ run.phase = "final"
    /\ games' = update_game_timestamps(
                    update_game_status(games, run.gid, "ready"), run.gid)
    /\ run' = NoRun
    /\ last' = Result("research", "summary", run.gid, run.seen, FALSE, FALSE,
                      run.downloaded, run.linked)
    /\ UNCHANGED <<sources, chatTag, disk, call, ck>>

\* research: a database call after the index build raised
\* (update_game_metadata, update_game_status).
FinalizeRaises ==
    /\ run.phase = "final"
    /\ run' = NoRun
    /\ last' = Result("research", "raised", run.gid, run.seen, FALSE, FALSE,
                      run.downloaded, run.linked)
    /\ UNCHANGED <<games, sources, chatTag, disk, call, ck>>

----------------------------------------------------------------------------
(* QueryTool *)

\* Mutant: the chat's recent game is preferred to the extracted name.
ResolveName_RecentFirst(explicit, extracted, chat) ==
    IF explicit # None THEN explicit
    ELSE IF find_recent_game_for_chat(chat) # 0
         THEN games[find_recent_game_for_chat(chat)].name
    ELSE extracted

\* answer: explicit_game, else extract_game_name, else the chat's recent game.
ResolveName(explicit, extracted, chat) ==
    IF explicit # None THEN explicit
    ELSE IF extracted # None THEN extracted
    ELSE IF find_recent_game_for_chat(chat) # 0
         THEN games[find_recent_game_for_chat(chat)].name
    ELSE None

\* FAISSDS.__init__ opens meta_data.jsonl and reads faiss.index; either one
\* missing raises.
Loadable(files) == files.meta # 0 /\ files.index # 0

\* app QueryTool.answer: `if game.status != "ready": return not-ready`
AppCanSearch(status) == status = "ready"

\* Mutant: `if game_data:`.
BotCanSearch_AnyStatus(status) == TRUE

\* bot QueryTool.answer: `if game_data and game_data["status"] == "ready"`
BotCanSearch(status) == status = "ready"

\* app/tools.py QueryTool.answer: what the call does and returns.
AppReply(chat, explicit, extracted, hit) ==
    LET name == ResolveName(explicit, extracted, chat)
        id == get_game_by_name(games, name)
        st == IF id = 0 THEN None ELSE games[id].status
    IN   IF name = None THEN Result("answer", "clarify", 0, None, FALSE, FALSE, 0, 0)
         ELSE IF id = 0 THEN Result("answer", "no_info", 0, None, FALSE, FALSE, 0, 0)
         ELSE IF ~AppCanSearch(st)
              THEN Result("answer", "not_ready", id, st, FALSE, FALSE, 0, 0)
         ELSE IF Loadable(disk[id]) /\ hit
              THEN Result("answer", "answer", id, st, TRUE, TRUE, 0, 0)
         ELSE Result("answer", "nothing_found", id, st, TRUE, FALSE, 0, 0)

\* app/tools.py QueryTool.answer
AnswerApp(chat, explicit, extracted, hit) ==
    /\ run = NoRun
    /\ last' = AppReply(chat, explicit, extracted, hit)
    /\ UNCHANGED <<games, sources, chatTag, disk, run, call, ck>>

\* bot/tools.py QueryTool.answer: the index is searched for a ready topic,
\* and llm.web_search_answer composes the reply in every case.
BotReply(chat, explicit, extracted, hit) ==
    LET name == ResolveName(explicit, extracted, chat)
        id == get_game_by_name(games, name)
        st == IF id = 0 THEN None ELSE games[id].status
    IN   IF name = None THEN Result("answer", "clarify", 0, None, FALSE, FALSE, 0, 0)
         ELSE IF id # 0 /\ BotCanSearch(st)
              THEN Result("answer", "web_answer", id, st, TRUE, TRUE, 0, 0)
         ELSE Result("answer", "web_answer", id, st, FALSE, TRUE, 0, 0)

\* bot/tools.py QueryTool.answer
AnswerBot(chat, explicit, extracted, hit) ==
    /\ run = NoRun
    /\ last' = BotReply(chat, explicit, extracted, hit)
    /\ UNCHANGED <<games, sources, chatTag, disk, run, call, ck>>

\* DB.add_chat_message with a game tag (the handlers tag a chat with the id
\* that get_game_by_name returned).
AddChatMessage(chat, id) ==
    /\ run = NoRun
    /\ id \in 1..Len(games)
    /\ chatTag' = [chatTag EXCEPT ![chat] = id]
    /\ UNCHANGED <<games, sources, disk, run, call, last, ck>>

----------------------------------------------------------------------------
(* The bot *)

InitStore ==
    /\ games = <<>>
    /\ sources = <<>>
    /\ chatTag = [c \in Chats |-> 0]
    /\ disk = [g \in 1..Cardinality(Names) |-> [meta |-> 0, index |-> 0]]
    /\ run = NoRun
    /\ call = [n |-> 0, name |-> None, gid |-> 0]
    /\ last = Result("none", None, 0, None, FALSE, FALSE, 0, 0)

Init ==
    /\ InitStore
    /\ ck = [kind |-> "idle"]

AllOutcomes == {"captions", "nocaptions", "getfail", "pdf", "html"}
AllIngests == {"nosections", "raises", "ok", "embedraises"}

\* The research workflow.
Next ==
    \/ \E name \in Names : ResearchAlready(name)
    \/ \E name \in Names : ResearchCreateRaises(name)
    \/ \E name \in Names : ResearchDiscoveryRaises(name)
    \/ \E name \in Names :
          \/ ResearchStart(name, TRUE, "nojson")
          \/ ResearchStart(name, FALSE, "dups")
    \/ \E o \in AllOutcomes : SaveSource(o)
    \/ \E o \in AllOutcomes : SaveSourceNoDir(o)
    \/ SaveSourceRaises
    \/ \E o \in AllIngests : Ingest(o)
    \/ Finalize
    \/ FinalizeRaises

Spec == Init /\ [][Next]_vars

\* intent.game_name, and what extract_game_name returns when it is called
\* (only without an explicit game).
QueryInputs ==
    { [explicit |-> e, extracted |-> None] : e \in Names }
    \cup { [explicit |-> None, extracted |-> x] : x \in Names \cup {None} }

\* Questions asked between research calls that fetch the one seed page.
NextQuery ==
    \/ \E name \in Names : ResearchAlready(name)
    \/ \E name \in Names : ResearchCreateRaises(name)
    \/ \E name \in Names : ResearchDiscoveryRaises(name)
    \/ \E name \in Names : ResearchStart(name, FALSE, "nojson")
    \/ SaveSource("html")
    \/ \E o \in {"raises", "ok"} : Ingest(o)
    \/ Finalize
    \/ FinalizeRaises
    \/ \E chat \in Chats, q \in QueryInputs, hit \in BOOLEAN :
            AnswerApp(chat, q.explicit, q.extracted, hit)
    \/ \E chat \in Chats, q \in QueryInputs, hit \in BOOLEAN :
            AnswerBot(chat, q.explicit, q.extracted, hit)
    \/ \E chat \in Chats, id \in 1..Cardinality(Names) : AddChatMessage(chat, id)

SpecQuery == Init /\ [][NextQuery]_vars

\* Research calls in which nothing but fetches fail.  research runs without
\* an await, so a call that has started takes its next step.
NextFetch ==
    \/ \E name \in Names : ResearchAlready(name)
    \/ \E name \in Names :
          \/ ResearchStart(name, TRUE, "nojson")
          \/ ResearchStart(name, FALSE, "video")
    \/ \E o \in AllOutcomes : SaveSource(o)
    \/ \E o \in {"nosections", "ok"} : Ingest(o)
    \/ Finalize

SpecFetch == Init /\ [][NextFetch]_vars /\ WF_vars(NextFetch)

\* Questions whose arguments are kept: ck holds the latest question, last
\* what answer did with it.
Ask(chat, explicit, extracted, hit, variant) ==
    /\ run = NoRun
    /\ ck' = [kind |-> "ask", chat |-> chat, explicit |-> explicit,
              extracted |-> extracted, recent |-> find_recent_game_for_chat(chat)]
    /\ last' = IF variant = "app" THEN AppReply(chat, explicit, extracted, hit)
               ELSE BotReply(chat, explicit, extracted, hit)
    /\ UNCHANGED <<games, sources, chatTag, disk, run, call>>

NextResolve ==
    \/ \E name \in Names : ResearchStart(name, FALSE, "nojson")
    \/ SaveSource("html")
    \/ Ingest("ok")
    \/ Finalize
    \/ \E chat \in Chats, id \in 1..Cardinality(Names) : AddChatMessage(chat, id)
    \/ \E chat \in Chats, q \in QueryInputs, hit \in BOOLEAN :
            Ask(chat, q.explicit, q.extracted, hit, "app")
    \/ \E chat \in Chats, q \in QueryInputs :
            Ask(chat, q.explicit, q.extracted, TRUE, "bot")

SpecResolve == Init /\ [][NextResolve]_vars

\* Research calls whose source-discovery call fails, by raising or by
\* answering text without a JSON object, and in which nothing else fails.
NextDiscovery ==
    \/ \E name \in Names : ResearchAlready(name)
    \/ \E name \in Names : ResearchDiscoveryRaises(name)
    \/ \E name \in Names, bgg \in BOOLEAN : ResearchStart(name, bgg, "nojson")
    \/ \E o \in AllOutcomes : SaveSource(o)
    \/ \E o \in {"nosections", "ok"} : Ingest(o)
    \/ Finalize

SpecDiscovery == Init /\ [][NextDiscovery]_vars

\* Research calls in which nothing but fetches and the index build fail.
\* research runs without an await, so a call that has started takes its
\* next step.
NextIngest ==
    \/ \E name \in Names : ResearchAlready(name)
    \/ \E name \in Names, bgg \in BOOLEAN : ResearchStart(name, bgg, "nojson")
    \/ \E o \in {"html", "getfail"} : SaveSource(o)
    \/ \E o \in AllIngests : Ingest(o)
    \/ Finalize

SpecIngest == Init /\ [][NextIngest]_vars /\ WF_vars(NextIngest)

\* Research calls whose discovery lists pages of two sites under one file
\* name, and in which nothing but fetches fail.
NextPaths ==
    \/ \E name \in Names : ResearchAlready(name)
    \/ \E name \in Names : ResearchStart(name, FALSE, "mirrors")
    \/ \E o \in AllOutcomes : SaveSource(o)
    \/ \E o \in {"nosections", "ok"} : Ingest(o)
    \/ Finalize

SpecPaths == Init /\ [][NextPaths]_vars

\* The last call explored: a retry in which no service fails.
LastCall == call.n = MaxResearch

\* Research calls that fail (the insert's mkdir, the discovery, a file write,
\* the final database calls), followed by a retry in which no fetch, no
\* service and no database call fails.
NextRetry ==
    \/ \E name \in Names : ResearchAlready(name)
    \/ \E name \in Names : call.n + 1 < MaxResearch /\ ResearchCreateRaises(name)
    \/ \E name \in Names : call.n + 1 < MaxResearch /\ ResearchDiscoveryRaises(name)
    \/ \E name \in Names, bgg \in BOOLEAN : ResearchStart(name, bgg, "nojson")
    \/ \E o \in AllOutcomes : SaveSource(o)
    \/ \E o \in AllOutcomes : SaveSourceNoDir(o)
    \/ ~LastCall /\ SaveSourceRaises
    \/ \E o \in {"nosections", "ok"} : Ingest(o)
    \/ Finalize
    \/ ~LastCall /\ FinalizeRaises

SpecRetry == Init /\ [][NextRetry]_vars

----------------------------------------------------------------------------
(* Properties of the research workflow (Spec) *)

\* The rows whose name equals `name` without regard to case.
Topics(name) == { i \in 1..Len(games) : Lower(games[i].name) = Lower(name) }

\* A research call starts in this step.
Called == run = NoRun /\ call'.n = call.n + 1

Rank(status) ==
    CASE status = "created"     -> 1
      [] status = "researching" -> 2
      [] OTHER                  -> 3

\* C1: research(name) on a topic that an earlier research call left ready
\* returns the "already have research" reply, starts no discovery, fetch or
\* index build, and leaves the Topic rows and the Source rows as they were.
C1_ReadyShortCircuit ==
    [][ (Called /\ \E i \in Topics(call'.name) : games[i].status = "ready")
          => /\ last'.op = "research"
             /\ last'.reply = "already"
             /\ run' = NoRun
             /\ games' = games
             /\ sources' = sources
             /\ disk' = disk ]_vars

C1_Witness ==
    /\ last.op = "research"
    /\ last.reply = "already"
    /\ call.n >= 2
    /\ \E k \in 1..Len(sources) : sources[k].game_id = last.gid

\* C2: a research request that finds the topic in status researching starts
\* no second discovery/fetch run.
C2_NoSecondRun ==
    [][ (Called /\ \E i \in Topics(call'.name) : games[i].status = "researching")
          => run' = NoRun ]_vars

\* C3: a topic's status never moves backward in the order created,
\* researching, ready, whatever the research calls do and wherever they fail.
C3_StatusForward ==
    [][ /\ Len(games') >= Len(games)
        /\ \A i \in 1..Len(games) :
              Rank(games'[i].status) >= Rank(games[i].status) ]_vars

C3_Witness ==
    /\ run = NoRun
    /\ last.op = "research"
    /\ last.reply = "raised"
    /\ last.status = "researching"
    /\ games[last.gid].status = "researching"

C8_SameBuild ==
    \A g \in DOMAIN disk : Loadable(disk[g]) => disk[g].meta = disk[g].index

\* The position of the first entry of `list` with this URL.
FirstOf(list, url) ==
    CHOOSE k \in 1..Len(list) :
        /\ list[k].url = url
        /\ \A j \in 1..(k - 1) : list[j].url # url

\* The Source rows the running research call has inserted.
RunRows == SubSeq(sources, run.base + 1, Len(sources))

\* C16: the rows a research run inserts are rows of its topic, one per
\* distinct URL of the merged seed and discovered list, with the title of
\* the URL's first entry, in the order of the first entries; when the save
\* loop is over every URL of the list has its row.
C16_FirstSeen ==
    run # NoRun =>
        /\ \A r \in 1..Len(RunRows) :
              /\ RunRows[r].game_id = run.gid
              /\ \E k \in 1..Len(run.seeds) : run.seeds[k].url = RunRows[r].url
              /\ RunRows[r].title = run.seeds[FirstOf(run.seeds, RunRows[r].url)].title
        /\ \A r, q \in 1..Len(RunRows) :
              r < q => FirstOf(run.seeds, RunRows[r].url)
                          < FirstOf(run.seeds, RunRows[q].url)
        /\ run.phase = "final" =>
              \A k \in 1..Len(run.seeds) :
                 \E r \in 1..Len(RunRows) : RunRows[r].url = run.seeds[k].url

C16_Witness ==
    /\ run # NoRun
    /\ run.phase = "final"
    /\ Len(RunRows) = 2
    /\ Len(run.seeds) = 3
    /\ run.seeds[2].url = RunRows[1].url
    /\ run.seeds[2].title # RunRows[1].title
    /\ run.seeds[3].url = RunRows[2].url

\* The URLs of a list of candidates.
UrlsOf(list) == { list[k].url : k \in 1..Len(list) }

\* The rows of the running call that have / have not a local path.
RowsWithPath == { r \in 1..Len(RunRows) : RunRows[r].path # NoPath }
RowsWithoutPath == { r \in 1..Len(RunRows) : RunRows[r].path = NoPath }

\* C27: the summary a research run returns reports as downloaded the number
\* of rows the run inserted with a local path, as linked the number it
\* inserted without, and the two add up to the number of distinct URLs of
\* the run's list.
C27_CountsMatchRows ==
    [][(run # NoRun /\ run' = NoRun /\ last'.reply = "summary") =>
          /\ last'.downloaded = Cardinality(RowsWithPath)
          /\ last'.linked = Cardinality(RowsWithoutPath)
          /\ last'.downloaded + last'.linked = Cardinality(UrlsOf(run.seeds))]_vars

C27_Witness ==
    /\ run = NoRun
    /\ last.op = "research"
    /\ last.reply = "summary"
    /\ last.downloaded = 1
    /\ last.linked = 1
    /\ Len(sources) = 2

\* C28: after any sequence of research calls, failed and re-run ones
\* included, a topic has at most one Source row per URL.
C28_OneRowPerUrl ==
    \A r, q \in 1..Len(sources) :
        (sources[r].game_id = sources[q].game_id /\ sources[r].url = sources[q].url)
            => r = q

----------------------------------------------------------------------------
(* Properties of the fetches (SpecFetch) *)

\* A step of the save loop in which the GET failed.
GetFailed == run # NoRun /\ run' # NoRun /\ run'.i = run.i + 1
                /\ run'.fetched = "getfail"

\* C17: a URL whose GET fails is persisted as a Source of kind link without
\* a local path, the save loop goes on with the next URL, every URL of the
\* run has its row when the loop is over, and the run ends with the summary.
C17_GetFailureIsLink ==
    /\ [][ GetFailed =>
             /\ Len(sources') = Len(sources) + 1
             /\ sources'[Len(sources')].kind = "link"
             /\ sources'[Len(sources')].path = NoPath
             /\ sources'[Len(sources')].url = run.uniq[run.i].url
             /\ sources'[Len(sources')].game_id = run.gid
             /\ run'.phase = "save"
             /\ last' = last ]_vars
    /\ [](run # NoRun /\ run.phase = "final" => Len(RunRows) = Len(run.uniq))
    /\ (run # NoRun /\ run.fetched = "getfail")
          ~> (run = NoRun /\ last.reply = "summary" /\ last.linked >= 1)

C17_Witness ==
    /\ run = NoRun
    /\ last.op = "research"
    /\ last.reply = "summary"
    /\ last.linked = 1
    /\ last.downloaded = 1
    /\ \E k \in 1..(Len(sources) - 1) :
          /\ sources[k].game_id = last.gid
          /\ sources[k].kind = "link"
          /\ sources[k].path = NoPath
          /\ sources[k + 1].game_id = last.gid
          /\ sources[k + 1].path # NoPath

\* C22 (SpecDiscovery): a research call whose source-discovery call failed
\* has, when it is over, persisted the Source of the Wikipedia seed and left
\* the topic ready.
C22_SeedsOnFailure ==
    (run = NoRun /\ call.n > 0) =>
        /\ games[call.gid].status = "ready"
        /\ \E k \in 1..Len(sources) :
              /\ sources[k].game_id = call.gid
              /\ sources[k].url = WikiUrl(games[call.gid].name)

\* The index build of the running research call raised.
BuildFailed ==
    /\ run # NoRun
    /\ run.phase = "final"
    /\ run.ingested \in {"raises", "embedraises"}

\* C23 (SpecIngest): a research run whose index build raised goes on: it
\* sets the topic ready, stamps the last-researched time and returns the
\* summary with the counts of the sources it saved.
C23_BuildFailureSwallowed ==
    /\ [][ (run # NoRun /\ run.phase = "save" /\ run.i > Len(run.uniq))
             => run' # NoRun ]_vars
    /\ [][ (BuildFailed /\ run' # run) =>
             /\ run' = NoRun
             /\ games'[run.gid].status = "ready"
             /\ games'[run.gid].researched
             /\ last'.op = "research"
             /\ last'.reply = "summary"
             /\ last'.downloaded = run.downloaded
             /\ last'.linked = run.linked ]_vars
    /\ BuildFailed ~> (run = NoRun /\ last.reply = "summary")

C23_Witness ==
    /\ run = NoRun
    /\ last.op = "research"
    /\ last.reply = "summary"
    /\ last.downloaded >= 1
    /\ games[last.gid].status = "ready"
    /\ games[last.gid].researched
    /\ disk[last.gid].meta # 0
    /\ disk[last.gid].index = 0

\* C18: every Source row has either a local path or the kind link, and not
\* both: no row of another kind lacks a path, no link row has one.
C18_PathXorLink ==
    \A k \in 1..Len(sources) :
        (sources[k].path # NoPath) <=> (sources[k].kind # "link")

----------------------------------------------------------------------------
(* Properties of the saved files (SpecPaths) *)

\* C29: within one topic, two Source rows for different URLs never have the
\* same local file path.
C29_DistinctPaths ==
    \A r, q \in 1..Len(sources) :
        ( /\ sources[r].game_id = sources[q].game_id
          /\ sources[r].url # sources[q].url
          /\ sources[r].path # NoPath )
            => sources[r].path # sources[q].path

----------------------------------------------------------------------------
(* Properties of retries (SpecRetry) *)

\* The research call that ended in this step raised.
RunRaised ==
    /\ last' # last
    /\ last'.op = "research"
    /\ last'.reply = "raised"

\* C24: a research call that raises leaves its topic created or researching,
\* and a later research call for the same name in which no service fails
\* runs the workflow again and ends with the topic ready.
C24_RetryEndsReady ==
    [][/\ RunRaised => games'[last'.gid].status \in {"created", "researching"}
       /\ (run # NoRun /\ run' = NoRun /\ LastCall)
              => games'[run.gid].status = "ready"]_vars

----------------------------------------------------------------------------
(* Properties of the query workflow (SpecQuery) *)

\* C5: QueryTool.answer on a topic in status created or researching returns
\* the "not ready yet" message and no LLM-composed answer.
C5_NotReadyReply ==
    (last.op = "answer" /\ last.status \in {"created", "researching"})
        => (last.reply = "not_ready" /\ ~last.llm)

\* C6: QueryTool.answer loads and searches the vector index only for a topic
\* whose status is ready: never for a created, researching or unknown topic.
C6_SearchOnlyReady ==
    (last.op = "answer" /\ last.searched)
        => /\ last.status = "ready"
           /\ last.gid \in 1..Len(games)
           /\ games[last.gid].status = "ready"

C6_Witness ==
    /\ last.op = "answer"
    /\ last.searched
    /\ last.reply \in {"answer", "web_answer"}
    /\ \E i \in 1..Len(games) : games[i].status # "ready"

----------------------------------------------------------------------------
(* Chunker: ingest.chunk_text *)

\* A text is a sequence of characters; " " stands for any whitespace.
Alphabet == {"a", "b", " "}
Texts == UNION { [1..k -> Alphabet] : k \in 0..MaxTextLen }

\* str.split(): the maximal runs of non-whitespace characters.
RECURSIVE SplitFrom(_, _)
SplitFrom(text, word) ==
    IF text = <<>> THEN (IF word = <<>> THEN <<>> ELSE <<word>>)
    ELSE IF Head(text) = " "
         THEN (IF word = <<>> THEN <<>> ELSE <<word>>) \o SplitFrom(Tail(text), <<>>)
    ELSE SplitFrom(Tail(text), Append(word, Head(text)))

Split(text) == SplitFrom(text, <<>>)

\* " ".join(words)
RECURSIVE Join(_)
Join(words) ==
    IF words = <<>> THEN <<>>
    ELSE IF Len(words) = 1 THEN words[1]
    ELSE words[1] \o <<" ">> \o Join(Tail(words))

\* str.strip()
RECURSIVE Strip(_)
Strip(text) ==
    IF text = <<>> THEN <<>>
    ELSE IF Head(text) = " " THEN Strip(Tail(text))
    ELSE IF text[Len(text)] = " " THEN Strip(SubSeq(text, 1, Len(text) - 1))
    ELSE text

\* words[i : i + size], i counted from 0.
Slice(words, i, size) ==
    SubSeq(words, i + 1, IF i + size < Len(words) THEN i + size ELSE Len(words))

\* Mutant: windows of characters of the raw text, kept as they are.
chunk_text_Chars(text, size, overlap) ==
    LET step == size - overlap
        starts == IF step <= 0 THEN <<>> ELSE
                    [k \in 1..((Len(text) + step - 1) \div step) |-> (k - 1) * step]
    IN [err |-> step = 0,
        chunks |-> [k \in 1..Len(starts) |-> 
                      SubSeq(text, starts[k] + 1,
                             IF starts[k] + size < Len(text)
                             THEN starts[k] + size ELSE Len(text))]]

\* Mutant: the window advances by chunk_size.
ChunkStep_NoOverlap(size, overlap) == size

\* The step of `range(0, len(words), chunk_size - overlap)`.
ChunkStep(size, overlap) == size - overlap

\* range(0, stop, step) for step > 0.
Range(stop, step) ==
    [k \in 1..((stop + step - 1) \div step) |-> (k - 1) * step]

\* chunk_text: range() raises ValueError for step 0 and is empty for a
\* negative step.
chunk_text(text, size, overlap) ==
    LET words == Split(text)
        step == ChunkStep(size, overlap)
        starts == IF step < 0 THEN <<>> ELSE Range(Len(words), step)
        chunks == [k \in 1..Len(starts) |-> Join(Slice(words, starts[k], size))]
    IN IF step = 0 THEN [err |-> TRUE, chunks |-> <<>>]
       ELSE [err |-> FALSE,
             chunks |-> SelectSeq(chunks, LAMBDA c : Strip(c) # <<>>)]

InitChunk ==
    /\ InitStore
    /\ ck \in { [kind |-> "chunk", text |-> t, size |-> w, overlap |-> o,
                done |-> FALSE, err |-> FALSE, out |-> <<>>] :
                t \in Texts, w \in 1..MaxChunk, o \in 0..(MaxChunk + 1) }

\* list(chunk_text(text, chunk_size, overlap))
ChunkText ==
    /\ ck.kind = "chunk"
    /\ ~ck.done
    /\ ck' = [ck EXCEPT !.done = TRUE,
                        !.err = chunk_text(ck.text, ck.size, ck.overlap).err,
                        !.out = chunk_text(ck.text, ck.size, ck.overlap).chunks]
    /\ UNCHANGED <<games, sources, chatTag, disk, run, call, last>>

NextChunk == ChunkText

SpecChunk == InitChunk /\ [][NextChunk]_vars

\* C9: for 0 <= overlap < chunk_size the windows start at words 0, s, 2s, ...
\* (s = chunk_size - overlap), each holds at most chunk_size consecutive
\* words in input order, and every word is in some window.
C9_Windows ==
    (ck.kind = "chunk" /\ ck.done /\ ck.overlap < ck.size) =>
        LET words == Split(ck.text)
            n == Len(words)
            s == ck.size - ck.overlap
        IN /\ ~ck.err
           /\ Len(ck.out) = Cardinality({ i \in 0..(n - 1) : i % s = 0 })
           /\ \A k \in 1..Len(ck.out) :
                 /\ Len(Split(ck.out[k])) <= ck.size
                 /\ \A j \in 1..Len(Split(ck.out[k])) :
                       /\ (k - 1) * s + j <= n
                       /\ Split(ck.out[k])[j] = words[(k - 1) * s + j]
                 /\ Len(Split(ck.out[k])) = ck.size
                       \/ (k - 1) * s + Len(Split(ck.out[k])) = n
           /\ \A j \in 1..n :
                 \E k \in 1..Len(ck.out) :
                    (k - 1) * s < j /\ j <= (k - 1) * s + Len(Split(ck.out[k]))

C9_Witness ==
    /\ ck.kind = "chunk"
    /\ ck.done
    /\ 0 < ck.overlap
    /\ ck.overlap < ck.size
    /\ Len(ck.out) >= 3
    /\ Len(Split(ck.out[Len(ck.out)])) < ck.size

\* C10: chunk_text with overlap >= chunk_size is rejected with an error and
\* yields no chunk.
C10_Rejected ==
    (ck.kind = "chunk" /\ ck.done /\ ck.overlap >= ck.size)
        => (ck.err /\ ck.out = <<>>)

\* C11: chunk_text yields no chunk for a text that is empty or only
\* whitespace (without an error unless the step chunk_size - overlap is 0),
\* and no chunk it yields, for any text, is empty or only whitespace.
C11_NoBlankChunk ==
    (ck.kind = "chunk" /\ ck.done) =>
        /\ (\A j \in 1..Len(ck.text) : ck.text[j] = " ")
              => /\ ck.out = <<>>
                 /\ ck.err <=> ck.size = ck.overlap
        /\ \A k \in 1..Len(ck.out) :
              \E j \in 1..Len(ck.out[k]) : ck.out[k][j] # " "

C11_Witness ==
    /\ ck.kind = "chunk"
    /\ ck.done
    /\ Len(ck.text) >= 2
    /\ \A j \in 1..Len(ck.text) : ck.text[j] = " "
    /\ ck.overlap < ck.size
    /\ ck.out = <<>>
    /\ ~ck.err

----------------------------------------------------------------------------
(* Index builder: faiss_ds.get_embeddings and FAISSDS.create *)

\* Sections as ingest_game_sources builds them: the search key is the label
\* "<title> - chunk <id>", the content is the chunk.  Texts are sequences of
\* characters.
SectionPool ==
    { [search_key |-> <<"T", "0">>,       content |-> <<"x">>],
      [search_key |-> <<"T", "1">>,       content |-> <<"x", "\n", "y">>],
      [search_key |-> <<"T", "\n", "2">>, content |-> <<"y">>] }

SectionLists == UNION { [1..k -> SectionPool] : k \in 0..MaxSections }

\* text.replace("\n", " ")
ReplaceNewlines(text) ==
    [i \in 1..Len(text) |-> IF text[i] = "\n" THEN " " ELSE text[i]]

\* The embedding service: one vector per input text, a function of the text.
Embed(text) == [of |-> text]

\* get_embeddings: the batches texts[i : i + batch_size] in turn, each
\* answered by the service in order.  failAt is the batch whose request
\* raises (0: none).
RECURSIVE get_embeddings(_, _, _, _)
get_embeddings(texts, batch_size, failAt, batchNo) ==
    IF texts = <<>> THEN [ok |-> TRUE, embeddings |-> <<>>]
    ELSE IF failAt = batchNo THEN [ok |-> FALSE, embeddings |-> <<>>]
    ELSE LET batch == Slice(texts, 0, batch_size)
             rest == get_embeddings(SubSeq(texts, Len(batch) + 1, Len(texts)),
                                    batch_size, failAt, batchNo + 1)
             got == [i \in 1..Len(batch) |-> Embed(ReplaceNewlines(batch[i]))]
         IN [ok |-> rest.ok,
             embeddings |-> IF rest.ok THEN got \o rest.embeddings ELSE <<>>]

\* FAISSDS.create: keys are the search keys; the metadata lines are written
\* first, the index after the embeddings arrived (np.vstack raises on an
\* empty list).
create(sections, batch_size, failAt) ==
    LET keys == [i \in 1..Len(sections) |-> sections[i].search_key]
        e == get_embeddings(keys, batch_size, failAt, 1)
    IN [metaWritten |-> TRUE, meta |-> sections,
        indexWritten |-> e.ok /\ sections # <<>>,
        index |-> IF e.ok /\ sections # <<>> THEN e.embeddings ELSE <<>>]

InitCreate ==
    /\ InitStore
    /\ ck \in { [kind |-> "create", sections |-> l, batch_size |-> b,
                failAt |-> f, done |-> FALSE,
                files |-> [metaWritten |-> FALSE, meta |-> <<>>,
                           indexWritten |-> FALSE, index |-> <<>>]] :
                l \in SectionLists, b \in 1..MaxBatch, f \in 0..MaxSections }

\* FAISSDS.create(section=iter(sections), index_name=...)
Create ==
    /\ ck.kind = "create"
    /\ ~ck.done
    /\ ck' = [ck EXCEPT !.done = TRUE,
                        !.files = create(ck.sections, ck.batch_size, ck.failAt)]
    /\ UNCHANGED <<games, sources, chatTag, disk, run, call, last>>

NextCreate == Create

SpecCreate == InitCreate /\ [][NextCreate]_vars

\* C7: after FAISSDS.create completes, the metadata file has as many lines
\* as the index has vectors, and vector i is the embedding of the text of
\* the chunk that metadata line i describes.
C7_Aligned ==
    (ck.kind = "create" /\ ck.done /\ ck.files.indexWritten) =>
        /\ Len(ck.files.meta) = Len(ck.files.index)
        /\ \A i \in 1..Len(ck.files.index) :
              ck.files.index[i] = Embed(ReplaceNewlines(ck.files.meta[i].content))

----------------------------------------------------------------------------
(* Similarity search: FAISSDS.search_request *)

\* An index is given by the inner product of each of its vectors with the
\* query embedding (the embedding service is a function of the query text);
\* vector i belongs to document i, both counted from 0.
ScoreLists == UNION { [1..n -> 0..MaxScore] : n \in 0..MaxVectors }

\* The score the library reports for a slot without a candidate.
NoScore == -1

\* Which of two vectors with one score the library ranks first.
Before(i, j, tie) == IF tie = "low" THEN i < j ELSE i > j

\* The positions of `rest` by decreasing score.
RECURSIVE Ranked(_, _, _)
Ranked(scores, rest, tie) ==
    IF rest = {} THEN <<>>
    ELSE LET best == CHOOSE i \in rest : \A j \in rest \ {i} :
                        \/ scores[i] > scores[j]
                        \/ scores[i] = scores[j] /\ Before(i, j, tie)
         IN <<best>> \o Ranked(scores, rest \ {best}, tie)

\* Mutant: an L2 index, which reports distances in increasing order.
IndexFlatL2_search(scores, k, tie) ==
    LET inv == [i \in 1..Len(scores) |-> MaxScore - scores[i]]
        order == Ranked(inv, 1..Len(scores), tie)
    IN [slot \in 1..k |->
          IF slot <= Len(order)
          THEN [idx |-> order[slot] - 1, score |-> scores[order[slot]]]
          ELSE [idx |-> -1, score |-> NoScore]]

\* index.search(vector, k) of the IndexFlatIP that create builds: k slots,
\* the best candidates first, then slots with position -1.
IndexFlatIP_search(scores, k, tie) ==
    LET order == Ranked(scores, 1..Len(scores), tie)
    IN [slot \in 1..k |->
          IF slot <= Len(order)
          THEN [idx |-> order[slot] - 1, score |-> scores[order[slot]]]
          ELSE [idx |-> -1, score |-> NoScore]]

\* Mutant: the index is asked for topk slots only.
SearchWidth_TopkOnly(topk, skip) == topk

\* search_request: `self.index.search(vector, topk + skip)`
SearchWidth(topk, skip) == topk + skip

\* Mutant: no test for a slot without a candidate.
IsMiss_Never(idx) == FALSE

\* search_request: `if idx == -1: continue`
IsMiss(idx) == idx = -1

\* self.documents[idx] for a list of n documents: a negative idx counts from
\* the end, and an idx outside -n..n-1 raises IndexError.
InDocuments(n, idx) == -n <= idx /\ idx < n
DocumentAt(n, idx) == IF idx < 0 THEN n + idx ELSE idx

\* search_request over an index of Len(scores) vectors and n documents.
search_request(scores, n, topk, skip, tie) ==
    LET slots == IndexFlatIP_search(scores, SearchWidth(topk, skip), tie)
        kept == { i \in 1..Len(slots) : i - 1 >= skip /\ ~IsMiss(slots[i].idx) }
        bad == { i \in kept : ~InDocuments(n, slots[i].idx) }
        taken == SelectSeq([i \in 1..Len(slots) |-> i], LAMBDA i : i \in kept)
    IN IF bad # {} THEN [err |-> TRUE, hits |-> <<>>]
       ELSE [err |-> FALSE,
             hits |-> [h \in 1..Len(taken) |->
                         [id |-> DocumentAt(n, slots[taken[h]].idx),
                          score |-> slots[taken[h]].score]]]

NoAnswer == [done |-> FALSE, err |-> FALSE, hits |-> <<>>]

InitSearch ==
    /\ InitStore
    /\ ck \in { [kind |-> "search", scores |-> sc, topk |-> k, skip |-> sk,
                tie |-> t, paged |-> NoAnswer, whole |-> NoAnswer] :
                sc \in ScoreLists, k \in 1..MaxTopk, sk \in 0..MaxSkip,
                t \in {"low", "high"} }

\* search_request(query, topk=k, skip=s)
SearchPaged ==
    /\ ck.kind = "search"
    /\ ~ck.paged.done
    /\ LET r == search_request(ck.scores, Len(ck.scores), ck.topk, ck.skip, ck.tie)
       IN ck' = [ck EXCEPT !.paged = [done |-> TRUE, err |-> r.err, hits |-> r.hits]]
    /\ UNCHANGED <<games, sources, chatTag, disk, run, call, last>>

\* search_request(query, topk=k+s, skip=0)
SearchWhole ==
    /\ ck.kind = "search"
    /\ ~ck.whole.done
    /\ LET r == search_request(ck.scores, Len(ck.scores), ck.topk + ck.skip, 0, ck.tie)
       IN ck' = [ck EXCEPT !.whole = [done |-> TRUE, err |-> r.err, hits |-> r.hits]]
    /\ UNCHANGED <<games, sources, chatTag, disk, run, call, last>>

NextSearch == SearchPaged \/ SearchWhole

SpecSearch == InitSearch /\ [][NextSearch]_vars

\* C12: the list search_request returns is ordered by non-increasing score,
\* for every query, topk and skip.
C12_Sorted ==
    (ck.kind = "search" /\ ck.paged.done) =>
        /\ ~ck.paged.err
        /\ \A h \in 1..(Len(ck.paged.hits) - 1) :
              ck.paged.hits[h].score >= ck.paged.hits[h + 1].score

C12_Witness ==
    /\ ck.kind = "search"
    /\ ck.paged.done
    /\ ck.skip > 0
    /\ Len(ck.paged.hits) >= 2
    /\ ck.paged.hits[1].score > ck.paged.hits[2].score
    /\ ck.scores[1] < ck.scores[Len(ck.scores)]

\* C13: search_request(q, topk=k, skip=s) returns the list of
\* search_request(q, topk=k+s, skip=0) without its first s entries, also
\* when the index holds fewer than k+s vectors.
C13_SkipIsDrop ==
    (ck.kind = "search" /\ ck.paged.done /\ ck.whole.done) =>
        /\ ~ck.paged.err
        /\ ~ck.whole.err
        /\ ck.paged.hits = SubSeq(ck.whole.hits, ck.skip + 1, Len(ck.whole.hits))

C13_Witness ==
    /\ ck.kind = "search"
    /\ ck.paged.done
    /\ ck.whole.done
    /\ ck.skip > 0
    /\ Len(ck.scores) < ck.topk + ck.skip
    /\ ck.paged.hits # <<>>
    /\ Len(ck.whole.hits) = Len(ck.paged.hits) + ck.skip

\* C14: when topk + skip exceeds the number n of vectors, search_request
\* raises no error and returns hits of existing chunks only, each once, and
\* at most min(topk, n - skip) of them: slots with position -1 are left out.
C14_OnlyAvailable ==
    (ck.kind = "search" /\ ck.paged.done /\ ck.topk + ck.skip > Len(ck.scores)) =>
        LET n == Len(ck.scores)
            hits == ck.paged.hits
        IN /\ ~ck.paged.err
           /\ \A h \in 1..Len(hits) :
                 /\ hits[h].id \in 0..(n - 1)
                 /\ hits[h].score = ck.scores[hits[h].id + 1]
           /\ \A h, g \in 1..Len(hits) : h # g => hits[h].id # hits[g].id
           /\ Len(hits) <= (IF ck.topk < n - ck.skip THEN ck.topk ELSE n - ck.skip)
                 \/ (n < ck.skip /\ hits = <<>>)

C14_Witness ==
    /\ ck.kind = "search"
    /\ ck.paged.done
    /\ ck.skip > 0
    /\ ck.topk + ck.skip > Len(ck.scores)
    /\ Len(ck.paged.hits) = Len(ck.scores) - ck.skip
    /\ Len(ck.paged.hits) >= 1
    /\ Len(ck.paged.hits) < ck.topk

----------------------------------------------------------------------------
(* Loading an index: FAISSDS.__init__ and QueryTool._search_faiss *)

\* answer: `self._search_faiss(game.id, user_text, top_k=5)`
AnswerTopK == 5

\* What the two files of a topic can hold: nothing (missing), bytes that do
\* not parse (corrupt), or k metadata lines / the vectors of an index.
MetaFiles ==
    { [state |-> st, lines |-> 0] : st \in {"missing", "corrupt"} }
    \cup { [state |-> "ok", lines |-> k] : k \in 0..MaxLines }
IndexFiles ==
    { [state |-> st, vectors |-> <<>>] : st \in {"missing", "corrupt"} }
    \cup { [state |-> "ok", vectors |-> sc] : sc \in ScoreLists }

\* FAISSDS.__init__: open() and json.loads of every line, then read_index;
\* TRUE when neither raises.
FAISSDS_init(meta, index) ==
    /\ meta.state = "ok"
    /\ index.state = "ok"

\* QueryTool._search_faiss: every exception of the load, of the query
\* embedding and of the search becomes ("", []).  The context has one part
\* and one citation per hit.
search_faiss(meta, index, embedOk, tie) ==
    IF ~FAISSDS_init(meta, index) \/ ~embedOk
    THEN [context |-> <<>>, citations |-> <<>>]
    ELSE LET r == search_request(index.vectors, meta.lines, AnswerTopK, 0, tie)
         IN IF r.err THEN [context |-> <<>>, citations |-> <<>>]
            ELSE [context |-> r.hits,
                  citations |-> [h \in 1..Len(r.hits) |-> r.hits[h].id]]

\* answer, from the search on: an empty context gives the "couldn't find
\* relevant information" reply, otherwise llm.chat composes the answer.
AnswerTail(found) ==
    IF found.context = <<>> THEN "nothing_found" ELSE "answer"

InitLoad ==
    /\ InitStore
    /\ ck \in { [kind |-> "load", meta |-> m, index |-> x, embedOk |-> e,
                tie |-> t, done |-> FALSE,
                found |-> [context |-> <<>>, citations |-> <<>>],
                reply |-> None] :
                m \in MetaFiles, x \in IndexFiles, e \in BOOLEAN,
                t \in {"low", "high"} }

\* answer on a ready topic whose files are ck.meta and ck.index.
SearchFaiss ==
    /\ ck.kind = "load"
    /\ ~ck.done
    /\ LET f == search_faiss(ck.meta, ck.index, ck.embedOk, ck.tie)
       IN ck' = [ck EXCEPT !.done = TRUE, !.found = f, !.reply = AnswerTail(f)]
    /\ UNCHANGED <<games, sources, chatTag, disk, run, call, last>>

NextLoad == SearchFaiss

SpecLoad == InitLoad /\ [][NextLoad]_vars

\* The files are missing, unreadable, or do not belong together.
BadFiles(meta, index) ==
    \/ ~FAISSDS_init(meta, index)
    \/ Len(index.vectors) # meta.lines

\* C15: for a ready topic whose index or metadata file is missing,
\* unreadable or inconsistent with the other, _search_faiss returns an empty
\* context and no citation, and answer returns a reply.
C15_EmptyOnBadIndex ==
    (ck.kind = "load" /\ ck.done /\ BadFiles(ck.meta, ck.index)) =>
        /\ ck.found.context = <<>>
        /\ ck.found.citations = <<>>
        /\ ck.reply = "nothing_found"

----------------------------------------------------------------------------
(* Intent resolver: classify_user_intent *)

IntentTypes == {"list_games", "research_game", "query_game", "general_chat"}
Confidences == {"high", "medium", "low"}

\* What client.beta.chat.completions.parse can do: raise for a timeout or an
\* API error, raise because the content does not validate against UserIntent
\* or was cut off, return a refusal (message.parsed is None), or return a
\* parsed UserIntent.
ParseOutcomes ==
    { [kind |-> k, intent_type |-> None, game_name |-> None, confidence |-> None] :
        k \in {"timeout", "apierror", "invalid", "truncated", "refusal"} }
    \cup { [kind |-> "parsed", intent_type |-> t, game_name |-> g, confidence |-> c] :
             t \in IntentTypes, g \in Names \cup {None}, c \in Confidences }

\* The exception the body of the try raises, or None: the parse call's own,
\* or AttributeError when the log line reads intent.intent_type of None.
Raised(outcome) ==
    CASE outcome.kind = "timeout"   -> "APITimeoutError"
      [] outcome.kind = "apierror"  -> "APIError"
      [] outcome.kind = "invalid"   -> "ValidationError"
      [] outcome.kind = "truncated" -> "LengthFinishReasonError"
      [] outcome.kind = "refusal"   -> "AttributeError"
      [] OTHER                      -> None

\* Mutant: `except openai.APIError`.
Caught_OnlyAPI(exc) == exc \in {"APITimeoutError", "APIError"}

\* classify_user_intent: `except Exception`.
Caught(exc) == TRUE

\* classify_user_intent: the fallback UserIntent.
FallbackIntent ==
    [intent_type |-> "general_chat", game_name |-> None, confidence |-> "low"]

\* classify_user_intent: what the caller gets.
classify_user_intent(outcome) ==
    IF Raised(outcome) = None
    THEN [raised |-> FALSE,
          intent |-> [intent_type |-> outcome.intent_type,
                      game_name |-> outcome.game_name,
                      confidence |-> outcome.confidence]]
    ELSE IF Caught(Raised(outcome))
         THEN [raised |-> FALSE, intent |-> FallbackIntent]
    ELSE [raised |-> TRUE,
          intent |-> [intent_type |-> None, game_name |-> None, confidence |-> None]]

InitIntent ==
    /\ InitStore
    /\ ck \in { [kind |-> "intent", llm |-> o, done |-> FALSE, raised |-> FALSE,
                intent |-> [intent_type |-> None, game_name |-> None,
                            confidence |-> None]] : o \in ParseOutcomes }

\* intent = classify_user_intent(text, available_games)
Classify ==
    /\ ck.kind = "intent"
    /\ ~ck.done
    /\ ck' = [ck EXCEPT !.done = TRUE,
                        !.raised = classify_user_intent(ck.llm).raised,
                        !.intent = classify_user_intent(ck.llm).intent]
    /\ UNCHANGED <<games, sources, chatTag, disk, run, call, last>>

NextIntent == Classify

SpecIntent == InitIntent /\ [][NextIntent]_vars

\* C19: when the classification call raises or its response cannot be
\* parsed, classify_user_intent returns general_chat with no topic name and
\* confidence low, and no exception reaches the caller.
C19_FailClosed ==
    (ck.kind = "intent" /\ ck.done /\ ck.llm.kind # "parsed") =>
        /\ ~ck.raised
        /\ ck.intent.intent_type = "general_chat"
        /\ ck.intent.game_name = None
        /\ ck.intent.confidence = "low"

C19_Witness ==
    /\ ck.kind = "intent"
    /\ ck.done
    /\ ck.llm.kind = "refusal"
    /\ ~ck.raised
    /\ ck.intent = FallbackIntent

----------------------------------------------------------------------------
(* Properties of topic resolution (SpecResolve) *)

\* The topic whose name is `name` without regard to case, or 0.
TopicOf(name) ==
    IF Topics(name) = {} THEN 0 ELSE CHOOSE i \in Topics(name) : TRUE

\* A question is answered in this step.
AskStep ==
    /\ run = NoRun
    /\ call' = call
    /\ chatTag' = chatTag
    /\ ck'.kind = "ask"
    /\ <<ck', last'>> # <<ck, last>>

\* C20: answer takes the explicit topic name if given, otherwise the name
\* extracted from the question, otherwise the topic of the chat's most
\* recent tagged message; when none of the three yields a topic it returns
\* the clarification reply, searches no index and settles on no topic.
C20_ResolutionOrder ==
    [][ AskStep =>
        /\ last'.op = "answer"
        /\ ck'.explicit # None
              => (last'.reply # "clarify" /\ last'.gid = TopicOf(ck'.explicit))
        /\ (ck'.explicit = None /\ ck'.extracted # None)
              => (last'.reply # "clarify" /\ last'.gid = TopicOf(ck'.extracted))
        /\ (ck'.explicit = None /\ ck'.extracted = None /\ chatTag[ck'.chat] # 0)
              => (last'.reply # "clarify" /\ last'.gid = chatTag[ck'.chat])
        /\ (ck'.explicit = None /\ ck'.extracted = None /\ chatTag[ck'.chat] = 0)
              => (last'.reply = "clarify" /\ ~last'.searched /\ ~last'.llm
                    /\ last'.gid = 0) ]_vars

C20_Witness ==
    /\ ck.kind = "ask"
    /\ ck.explicit = None
    /\ ck.extracted # None
    /\ ck.recent # 0
    /\ last.gid # 0
    /\ last.gid # ck.recent
    /\ last.searched

----------------------------------------------------------------------------
(* Message handler: bot/otterrouter.py otterhandler *)

\* The handler is followed for one message at a time.  ck holds its
\* position (pc), the inputs of the message and what it did so far: the
\* chat_log rows it inserted per role and the replies it sent.
\*   before:     the handling of the message before this one raised
\*   failAt:     the step that raises (None: no step does)
\*   fallbackOk: whether the second reply_text of schola_reply succeeds
HandlerSteps ==
    {"typing", "log_user", "classify", "tool", "reply_prompt", "reply_initial",
     "tag", "reply", "log_assistant"}

Messages == {"notext", "group_nomention", "ok"}

\* What classify_user_intent returns: a topic name comes with the research
\* and query intents only.
Intents ==
    { [intent_type |-> t, game_name |-> g] :
        t \in {"research_game", "query_game"}, g \in {"Catan", "catan", None} }
    \cup { [intent_type |-> t, game_name |-> None] :
              t \in {"list_games", "general_chat"} }

\* Which step raises, and whether the second reply_text then succeeds.
Failures ==
    { [failAt |-> f, fallbackOk |-> TRUE] : f \in HandlerSteps \cup {None} }
    \cup { [failAt |-> f, fallbackOk |-> FALSE] :
              f \in {"reply_prompt", "reply_initial", "reply"} }

\* The updates the handler is given.
Updates ==
    { [msg |-> m, intent |-> [intent_type |-> None, game_name |-> None],
       fail |-> [failAt |-> None, fallbackOk |-> TRUE]] :
         m \in Messages \ {"ok"} }
    \cup { [msg |-> "ok", intent |-> i, fail |-> f] :
              i \in Intents, f \in Failures }

IdleHandler ==
    [kind |-> "handler", pc |-> "done", before |-> FALSE, chat |-> 1,
     intent |-> [intent_type |-> None, game_name |-> None],
     failAt |-> None, fallbackOk |-> TRUE, callBase |-> 0, accepted |-> FALSE,
     user |-> 0, assistant |-> 0, system |-> 0, sent |-> 0,
     caught |-> FALSE, escaped |-> FALSE]

\* Mutant: the body of otterhandler without its try.
OuterCatches_Nothing(step) == FALSE

\* otterhandler: `except Exception as e: logger.error(...)`
OuterCatches(step) == TRUE

\* The handler after `step` raised.
Raise(h, step) ==
    [h EXCEPT !.pc = "done", !.caught = OuterCatches(step),
              !.escaped = ~OuterCatches(step)]

\* schola_reply at `step`: the reply is sent; when reply_text raises, the
\* except branch sends the "Exception occurred" note instead, and when that
\* raises as well the exception leaves schola_reply.
schola_reply(h, step, next) ==
    IF h.failAt = step /\ ~h.fallbackOk THEN Raise(h, step)
    ELSE [h EXCEPT !.pc = next, !.sent = @ + 1]

\* otterhandler up to `await message.chat.send_action`: messages without
\* text and group messages that do not mention the otter are dropped.
Receive(chat, msg, intent, failAt, fallbackOk) ==
    /\ ck.kind = "handler"
    /\ ck.pc = "done"
    /\ ~ck.escaped
    /\ run = NoRun
    /\ (intent.intent_type = "research_game" /\ intent.game_name # None)
          => call.n < MaxResearch
    /\ ck' = [IdleHandler EXCEPT
                !.before = ck.caught, !.chat = chat, !.intent = intent,
                !.failAt = failAt, !.fallbackOk = fallbackOk,
                !.callBase = call.n, !.accepted = (msg = "ok"),
                !.pc = IF msg = "ok" THEN "typing" ELSE "done"]
    /\ UNCHANGED <<games, sources, chatTag, disk, run, call, last>>

\* `await message.chat.send_action(action=ChatAction.TYPING)`
Typing ==
    /\ ck.kind = "handler"
    /\ ck.pc = "typing"
    /\ ck' = IF ck.failAt = "typing" THEN Raise(ck, "typing")
             ELSE [ck EXCEPT !.pc = "route"]
    /\ UNCHANGED <<games, sources, chatTag, disk, run, call, last>>

\* The user row, classify_user_intent, and the branch's work up to its first
\* await: list_available_games, QueryTool.answer, or nothing.
Route ==
    /\ ck.kind = "handler"
    /\ ck.pc = "route"
    /\ run = NoRun
    /\ LET logged == [ck EXCEPT !.user = @ + 1]
           t == ck.intent.intent_type
       IN IF ck.failAt = "log_user"
          THEN ck' = Raise(ck, "log_user") /\ last' = last
          ELSE IF ck.failAt = "classify"
          THEN ck' = Raise(logged, "classify") /\ last' = last
          ELSE IF t = "research_game"
          THEN /\ ck' = [logged EXCEPT !.pc =
                           IF ck.intent.game_name = None THEN "reply_prompt"
                           ELSE "reply_initial"]
               /\ last' = last
          ELSE IF t \in {"list_games", "query_game"} /\ ck.failAt = "tool"
          THEN ck' = Raise(logged, "tool") /\ last' = last
          ELSE /\ ck' = [logged EXCEPT !.pc = "reply"]
               /\ \/ /\ t = "query_game"
                     /\ \E hit \in BOOLEAN, x \in {"Catan", None} :
                          last' = BotReply(ck.chat, ck.intent.game_name,
                                    IF ck.intent.game_name = None THEN x ELSE None,
                                    hit)
                  \/ /\ t # "query_game"
                     /\ last' = last
    /\ UNCHANGED <<games, sources, chatTag, disk, run, call>>

\* research branch without a name: the prompt is sent and the handler
\* returns.
ReplyPrompt ==
    /\ ck.kind = "handler"
    /\ ck.pc = "reply_prompt"
    /\ ck' = schola_reply(ck, "reply_prompt", "done")
    /\ UNCHANGED <<games, sources, chatTag, disk, run, call, last>>

\* research branch: the "On it!" message.
ReplyInitial ==
    /\ ck.kind = "handler"
    /\ ck.pc = "reply_initial"
    /\ ck' = schola_reply(ck, "reply_initial", "research")
    /\ UNCHANGED <<games, sources, chatTag, disk, run, call, last>>

\* The handler is inside research_tool.research(research_game).
InResearch ==
    /\ ck.kind = "handler"
    /\ ck.pc = "research"
    /\ (run = NoRun => call.n = ck.callBase)

\* research returned or raised (`except Exception: reply = oops`); the
\* system row tags the chat with the topic found by name.
Tag ==
    /\ ck.kind = "handler"
    /\ ck.pc = "research"
    /\ run = NoRun
    /\ call.n > ck.callBase
    /\ LET id == get_game_by_name(games, ck.intent.game_name) IN
       IF ck.failAt = "tag"
       THEN ck' = Raise(ck, "tag") /\ chatTag' = chatTag
       ELSE /\ ck' = [ck EXCEPT !.pc = "reply", !.system = @ + 1]
            /\ chatTag' = IF id # 0 THEN [chatTag EXCEPT ![ck.chat] = id]
                          ELSE chatTag
    /\ UNCHANGED <<games, sources, disk, run, call, last>>

\* `await schola_reply(update, reply, ...)` of the four branches that log.
Reply ==
    /\ ck.kind = "handler"
    /\ ck.pc = "reply"
    /\ ck' = schola_reply(ck, "reply", "log_assistant")
    /\ UNCHANGED <<games, sources, chatTag, disk, run, call, last>>

\* The assistant row.  The research branch tags it with the topic, the
\* query branch with the explicit topic or with a topic whose name occurs in
\* the answer.
LogAssistant ==
    /\ ck.kind = "handler"
    /\ ck.pc = "log_assistant"
    /\ run = NoRun
    /\ IF ck.failAt = "log_assistant"
       THEN ck' = Raise(ck, "log_assistant") /\ chatTag' = chatTag
       ELSE /\ ck' = [ck EXCEPT !.pc = "done", !.assistant = @ + 1]
            /\ \E id \in 0..Len(games) :
                 /\ ck.intent.intent_type \in {"list_games", "general_chat"}
                       => id = 0
                 /\ (ck.intent.intent_type \in {"research_game", "query_game"}
                        /\ ck.intent.game_name # None)
                       => id = get_game_by_name(games, ck.intent.game_name)
                 /\ chatTag' = IF id # 0 THEN [chatTag EXCEPT ![ck.chat] = id]
                               ELSE chatTag
    /\ UNCHANGED <<games, sources, disk, run, call, last>>

InitHandler ==
    /\ InitStore
    /\ ck = IdleHandler

NextHandler ==
    \/ \E chat \in Chats, u \in Updates :
            Receive(chat, u.msg, u.intent, u.fail.failAt, u.fail.fallbackOk)
    \/ Typing
    \/ Route
    \/ ReplyPrompt
    \/ ReplyInitial
    \/ InResearch /\ ResearchAlready(ck.intent.game_name)
    \/ InResearch /\ ResearchDiscoveryRaises(ck.intent.game_name)
    \/ InResearch /\ ResearchStart(ck.intent.game_name, FALSE, "nojson")
    \/ InResearch /\ SaveSource("html")
    \/ InResearch /\ Ingest("ok")
    \/ InResearch /\ Finalize
    \/ Tag
    \/ Reply
    \/ LogAssistant

SpecHandler == InitHandler /\ [][NextHandler]_vars

----------------------------------------------------------------------------
(* Properties of the message handler (SpecHandler) *)

\* C21: whatever step of handling a message raises, otterhandler returns
\* normally: no exception leaves it, and the next message is handled.
C21_NothingEscapes ==
    ck.kind = "handler" => ~ck.escaped

C21_Witness ==
    /\ ck.kind = "handler"
    /\ ck.before
    /\ ck.pc = "done"
    /\ ck.caught
    /\ ck.failAt = "reply"
    /\ ck.user = 1
    /\ ck.sent = 1
    /\ ck.assistant = 0

\* C26: for every message the handler accepts and handles without an
\* exception, the chat log gains one row of role user and one row of role
\* assistant for each reply sent, on every intent branch.
C26_OneRowPerMessage ==
    (ck.kind = "handler" /\ ck.accepted /\ ck.pc = "done" /\ ~ck.caught) =>
        /\ ck.user = 1
        /\ ck.assistant = ck.sent

----------------------------------------------------------------------------
(* Topic names: difflib.get_close_matches, extract_game_name and the       *)
(* handler's use of intent.game_name                                       *)

\* Names an utterance can carry: the topic names and a misspelling.
Uttered == Names \cup {"Cattan"}

\* The characters of a name.
Chars(s) ==
    CASE s = "Catan"  -> <<"C", "a", "t", "a", "n">>
      [] s = "catan"  -> <<"c", "a", "t", "a", "n">>
      [] s = "Azul"   -> <<"A", "z", "u", "l">>
      [] s = "Cattan" -> <<"C", "a", "t", "t", "a", "n">>

\* Length of the common run of a from i and b from j, inside a[..ahi], b[..bhi].
RECURSIVE RunLength(_, _, _, _, _, _)
RunLength(a, b, i, j, ahi, bhi) ==
    IF i > ahi \/ j > bhi \/ a[i] # b[j] THEN 0
    ELSE 1 + RunLength(a, b, i + 1, j + 1, ahi, bhi)

\* SequenceMatcher.find_longest_match (no junk): the longest common block of
\* a[alo..ahi] and b[blo..bhi]; of the longest, the earliest in a, then in b.
find_longest_match(a, b, alo, ahi, blo, bhi) ==
    LET blocks == { [i |-> i, j |-> j, k |-> RunLength(a, b, i, j, ahi, bhi)] :
                        i \in alo..ahi, j \in blo..bhi }
    IN  CHOOSE m \in blocks :
            \A o \in blocks :
                \/ m.k > o.k
                \/ m.k = o.k /\ m.i < o.i
                \/ m.k = o.k /\ m.i = o.i /\ m.j <= o.j

\* SequenceMatcher.get_matching_blocks: the characters matched, the longest
\* block first, then the same to its left and to its right.
RECURSIVE Matched(_, _, _, _, _, _)
Matched(a, b, alo, ahi, blo, bhi) ==
    IF alo > ahi \/ blo > bhi THEN 0
    ELSE LET m == find_longest_match(a, b, alo, ahi, blo, bhi) IN
         IF m.k = 0 THEN 0
         ELSE m.k + Matched(a, b, alo, m.i - 1, blo, m.j - 1)
                  + Matched(a, b, m.i + m.k, ahi, m.j + m.k, bhi)

\* SequenceMatcher.ratio() = 2*M/T as the pair <<2*M, T>>.
Ratio(x, word) ==
    <<2 * Matched(Chars(x), Chars(word), 1, Len(Chars(x)), 1, Len(Chars(word))),
      Len(Chars(x)) + Len(Chars(word))>>

\* get_close_matches: `ratio() >= cutoff`, cutoff = 0.6.
IsClose(x, word) == 10 * Ratio(x, word)[1] >= 6 * Ratio(x, word)[2]

\* difflib.get_close_matches(word, possibilities, n=1, cutoff=0.6): the
\* possibility of the highest ratio, or None.  (The names of the model never
\* tie.)
get_close_matches(word, possibilities) ==
    LET close == { x \in possibilities : IsClose(x, word) } IN
    IF close = {} THEN None
    ELSE CHOOSE x \in close :
            \A y \in close :
                Ratio(x, word)[1] * Ratio(y, word)[2]
                    >= Ratio(y, word)[1] * Ratio(x, word)[2]

\* db.list_games() names.
AvailableGames == { games[i].name : i \in 1..Len(games) }

\* extract_game_name after the LLM answered extraction = [game_name,
\* confidence]: the close match, else the extracted name when confident.
extract_game_name(extraction, available) ==
    IF extraction.game_name = None THEN None
    ELSE IF get_close_matches(extraction.game_name, available) # None
         THEN get_close_matches(extraction.game_name, available)
    ELSE IF extraction.confidence = "high" THEN extraction.game_name
    ELSE None

\* What the LLM extracts from an utterance.
Extractions ==
    { [game_name |-> n, confidence |-> c] :
        n \in Uttered \cup {None}, c \in {"high", "low"} }

NoExtraction == [game_name |-> None, confidence |-> "low"]

\* otterhandler, research_game branch: `research_game = intent.game_name`.
\* The handler is about to call research_tool.research(research_game).
HandleResearch(chat, intent) ==
    /\ run = NoRun
    /\ call.n < MaxResearch
    /\ intent.game_name # None
    /\ ck' = [kind |-> "name", op |-> "research", chat |-> chat,
              utterance |-> intent, available |-> AvailableGames,
              used |-> intent.game_name, callBase |-> call.n]
    /\ UNCHANGED <<games, sources, chatTag, disk, run, call, last>>

\* The research call of the handler has not started yet.
NameResearch ==
    /\ ck.kind = "name"
    /\ ck.op = "research"
    /\ call.n = ck.callBase

\* otterhandler, query_game branch: `explicit_game = intent.game_name`, then
\* query_tool.answer, which calls extract_game_name only without an
\* explicit game.
HandleQuery(chat, intent, extraction) ==
    /\ run = NoRun
    /\ intent.game_name # None => extraction = NoExtraction
    /\ ck' = [kind |-> "name", op |-> "query", chat |-> chat,
              utterance |-> IF intent.game_name # None THEN intent
                            ELSE extraction,
              available |-> AvailableGames,
              used |-> IF intent.game_name # None THEN intent.game_name
                       ELSE extract_game_name(extraction, AvailableGames),
              callBase |-> call.n]
    /\ last' = BotReply(chat, intent.game_name,
                        extract_game_name(extraction, AvailableGames), TRUE)
    /\ UNCHANGED <<games, sources, chatTag, disk, run, call>>

InitNames ==
    /\ InitStore
    /\ ck = [kind |-> "name", op |-> "none", chat |-> 1,
             utterance |-> NoExtraction, available |-> {}, used |-> None,
             callBase |-> 0]

NextNames ==
    \/ \E chat \in Chats, intent \in Extractions : HandleResearch(chat, intent)
    \/ \E chat \in Chats, intent \in Extractions, extraction \in Extractions :
            HandleQuery(chat, intent, extraction)
    \/ NameResearch /\ ResearchAlready(ck.used)
    \/ NameResearch /\ ResearchStart(ck.used, FALSE, "nojson")
    \/ SaveSource("html")
    \/ Ingest("ok")
    \/ Finalize

SpecNames == InitNames /\ [][NextNames]_vars

\* C25: when the name extracted from an utterance has a close match among
\* the known topic names, the name used for the research or the query is
\* that known name; without a close match the extracted name is used only
\* when the extractor was confident, and otherwise no name is used.
C25_CanonicalName ==
    (ck.kind = "name" /\ ck.op # "none" /\ ck.utterance.game_name # None) =>
        ck.used =
            IF get_close_matches(ck.utterance.game_name, ck.available) # None
            THEN get_close_matches(ck.utterance.game_name, ck.available)
            ELSE IF ck.utterance.confidence = "high"
                 THEN ck.utterance.game_name
            ELSE None

----------------------------------------------------------------------------
(* The DB singleton: bot/db/sqlite_db.py DB.__new__                        *)

Threads == 1..NumThreads

\* cls._instance is None
NoInstance == 0

\* Mutant: the test under the lock is left out.
StillNone_Unchecked(instance) == TRUE

\* DB.__new__: the second `if cls._instance is None`, under the lock.
StillNone(instance) == instance = NoInstance

\* ck.instance is cls._instance (the object thread t creates is t),
\* ck.lock the holder of cls._instance_lock, ck.created the objects
\* created, ck.pc and ck.ret each thread's position and return value.
InitDB ==
    /\ InitStore
    /\ ck = [kind |-> "db", instance |-> NoInstance, lock |-> 0,
             created |-> {},
             pc |-> [t \in Threads |-> "call"],
             ret |-> [t \in Threads |-> NoInstance]]

\* DB(): the first `if cls._instance is None`, outside the lock.
FirstCheck(t) ==
    /\ ck.pc[t] = "call"
    /\ ck' = [ck EXCEPT !.pc[t] = IF ck.instance = NoInstance THEN "acquire"
                                  ELSE "return"]
    /\ UNCHANGED <<games, sources, chatTag, disk, run, call, last>>

\* `with cls._instance_lock:` entered.
Acquire(t) ==
    /\ ck.pc[t] = "acquire"
    /\ ck.lock = 0
    /\ ck' = [ck EXCEPT !.lock = t, !.pc[t] = "locked"]
    /\ UNCHANGED <<games, sources, chatTag, disk, run, call, last>>

\* The second test, under the lock.
SecondCheck(t) ==
    /\ ck.pc[t] = "locked"
    /\ ck' = [ck EXCEPT !.pc[t] = IF StillNone(ck.instance) THEN "create"
                                  ELSE "release"]
    /\ UNCHANGED <<games, sources, chatTag, disk, run, call, last>>

\* `cls._instance = super(DB, cls).__new__(cls)`
NewInstance(t) ==
    /\ ck.pc[t] = "create"
    /\ ck' = [ck EXCEPT !.instance = t, !.created = @ \cup {t},
                        !.pc[t] = "release"]
    /\ UNCHANGED <<games, sources, chatTag, disk, run, call, last>>

\* The `with` block is left.
Release(t) ==
    /\ ck.pc[t] = "release"
    /\ ck' = [ck EXCEPT !.lock = 0, !.pc[t] = "return"]
    /\ UNCHANGED <<games, sources, chatTag, disk, run, call, last>>

\* `return cls._instance`
Return(t) ==
    /\ ck.pc[t] = "return"
    /\ ck' = [ck EXCEPT !.ret[t] = ck.instance, !.pc[t] = "done"]
    /\ UNCHANGED <<games, sources, chatTag, disk, run, call, last>>

NextDB ==
    \/ \E t \in Threads : FirstCheck(t)
    \/ \E t \in Threads : Acquire(t)
    \/ \E t \in Threads : SecondCheck(t)
    \/ \E t \in Threads : NewInstance(t)
    \/ \E t \in Threads : Release(t)
    \/ \E t \in Threads : Return(t)

SpecDB == InitDB /\ [][NextDB]_vars

\* C30: however the threads that construct DB() interleave, at most one
\* instance is created and every constructor call returns that instance.
C30_OneInstance ==
    ck.kind = "db" =>
        /\ Cardinality(ck.created) <= 1
        /\ \A t \in Threads : ck.pc[t] = "done" => ck.ret[t] \in ck.created
        /\ \A t, u \in Threads :
              (ck.pc[t] = "done" /\ ck.pc[u] = "done") => ck.ret[t] = ck.ret[u]

\* A thread that passed the first test while there was no instance holds
\* the lock after another thread created the instance and returned it.
C30_Witness ==
    /\ ck.kind = "db"
    /\ \E t, u \in Threads :
          /\ ck.pc[t] = "locked"
          /\ ck.pc[u] = "done"
          /\ ck.instance = u
          /\ ck.ret[u] = u

====
